---- MODULE Spec2Model ----
(***************************************************************************)
(* A model of quimb's lazy linear algebra core                             *)
(* (quimb/linalg/approx_linalg.py): the contraction index planners and     *)
(* their lru caches, the lazy partial-trace contractions, the linear       *)
(* operator wrappers and the Lanczos based spectral function estimator.    *)
(*                                                                         *)
(* Numbers are exact: a complex number is a Gaussian integer <<re, im>>.   *)
(* A python value is a record with a type tag "t" and a payload "v"; the   *)
(* outcome of a call is a record tagged "ok" (with its value) or "raise"   *)
(* (with the exception's name).                                            *)
(***************************************************************************)
EXTENDS Integers, Sequences, FiniteSets, TLC

(***************************************************************************)
(* Gaussian integers.                                                      *)
(***************************************************************************)
GZero == <<0, 0>>
GOne == <<1, 0>>
GI == <<0, 1>>
GAdd(x, y) == <<x[1] + y[1], x[2] + y[2]>>
GSub(x, y) == <<x[1] - y[1], x[2] - y[2]>>
GMul(x, y) == <<x[1] * y[1] - x[2] * y[2], x[1] * y[2] + x[2] * y[1]>>
GConj(x) == <<x[1], 0 - x[2]>>
GScale(r, x) == <<r * x[1], r * x[2]>>

(***************************************************************************)
(* Sequences and python containers.                                        *)
(***************************************************************************)
Range(s) == {s[k] : k \in 1..Len(s)}

\* F applied to the value of x, with x evaluated once (an operator's
\* argument is otherwise evaluated again at each use)
Bind(x, F(_)) == CHOOSE y \in {F(v) : v \in {x}} : TRUE
\* the sequence s with its entries evaluated
Seq1(s) == SubSeq(s, 1, Len(s))

RECURSIVE Prod(_)
Prod(s) == IF s = <<>> THEN 1 ELSE Head(s) * Prod(Tail(s))

RECURSIVE SortedSeq(_)
SortedSeq(S) ==
  IF S = {} THEN <<>>
  ELSE LET m == CHOOSE x \in S : \A y \in S : x <= y
       IN <<m>> \o SortedSeq(S \ {m})

Ok(v) == [tag |-> "ok", val |-> v]
Raise(e) == [tag |-> "raise", exc |-> e]

\* python values: the payload v is always a sequence, so that values of
\* different types compare (as unequal) without a type error: an int n is
\* <<n>>, a set is the ascending sequence of its elements
PyInt(n) == [t |-> "int", v |-> <<n>>]
PyTuple(s) == [t |-> "tuple", v |-> s]
PyList(s) == [t |-> "list", v |-> s]
PySet(S) == [t |-> "set", v |-> SortedSeq(S)]
PyNone == [t |-> "None", v |-> <<>>]

\* tuple(x) for an iterable x: a list keeps its order; a set of small
\* non-negative ints is iterated by CPython in ascending order
tuple(x) == x.v

int2tup(x) ==
  IF x.t = "tuple" THEN x
  ELSE IF x.t = "int" THEN PyTuple(<<x.v[1]>>)
  ELSE PyTuple(tuple(x))

\* hashable arguments of an lru_cache'd function: ints and tuples of ints
Hashable(x) == x.t \in {"int", "tuple", "None"}

\* python's "i in x": membership for a container, TypeError for an int
Iterable(x) == x.t \in {"tuple", "list", "set"}
In(i, x) == i \in Range(x.v)

(***************************************************************************)
(* functools.lru_cache(128): a cache is the sequence of its entries        *)
(* [key, val], least recently used first.                                  *)
(***************************************************************************)
maxsize == 128

CacheKeys(cache) == {cache[k].key : k \in 1..Len(cache)}
CacheIndex(cache, key) == CHOOSE k \in 1..Len(cache) : cache[k].key = key
Remove(s, k) == SubSeq(s, 1, k - 1) \o SubSeq(s, k + 1, Len(s))

\* one call through the cache wrapper: args is the tuple of the call's
\* arguments, body the outcome of running the wrapped function on them.
\* Yields the outcome, the cache afterwards and whether the body ran.
lru_cache(cache, args, body) ==
  IF \E k \in 1..Len(args) : ~Hashable(args[k])
  THEN [ret |-> Raise("TypeError"), cache |-> cache, ran |-> FALSE]
  ELSE IF args \in CacheKeys(cache)
  THEN LET k == CacheIndex(cache, args)
       IN [ret |-> Ok(cache[k].val),
           cache |-> Remove(cache, k) \o <<cache[k]>>,
           ran |-> FALSE]
  ELSE IF body.tag = "raise"
  THEN [ret |-> body, cache |-> cache, ran |-> TRUE]
  ELSE LET full == cache \o <<[key |-> args, val |-> body.val]>>
       IN [ret |-> body,
           cache |-> IF Len(full) > maxsize THEN Tail(full) ELSE full,
           ran |-> TRUE]

(***************************************************************************)
(* The index planners.  A plan is a record of label sequences.             *)
(***************************************************************************)
\* one pass of the loop of get_cntrct_inds_ptr_dot; st.upper is the value
\* the iterator upper_inds yields next
ptr_dot_step(i, sysa, st) ==
  IF In(i, sysa)
  THEN [inds_a_ket |-> Append(st.inds_a_ket, i),
        inds_ab_bra |-> Append(st.inds_ab_bra, i),
        inds_ab_ket |-> Append(st.inds_ab_ket, st.upper),
        upper |-> st.upper + 1]
  ELSE [inds_a_ket |-> st.inds_a_ket,
        inds_ab_bra |-> Append(st.inds_ab_bra, i),
        inds_ab_ket |-> Append(st.inds_ab_ket, i),
        upper |-> st.upper]

RECURSIVE ptr_dot_loop(_, _, _, _)
ptr_dot_loop(i, ndim_ab, sysa, st) ==
  IF i >= ndim_ab THEN st
  ELSE ptr_dot_loop(i + 1, ndim_ab, sysa, ptr_dot_step(i, sysa, st))

\* the body of get_cntrct_inds_ptr_dot: "i in sysa" raises TypeError on the
\* first pass when sysa is not a container
get_cntrct_inds_ptr_dot_body(ndim_ab, sysa) ==
  IF ndim_ab > 0 /\ ~Iterable(sysa) THEN Raise("TypeError")
  ELSE LET st == ptr_dot_loop(0, ndim_ab, sysa,
                   [inds_a_ket |-> <<>>, inds_ab_bra |-> <<>>,
                    inds_ab_ket |-> <<>>, upper |-> ndim_ab])
       IN Ok([inds_a_ket |-> st.inds_a_ket,
              inds_ab_bra |-> st.inds_ab_bra,
              inds_ab_ket |-> st.inds_ab_ket])

get_cntrct_inds_ptr_dot(cache, ndim_ab, sysa) ==
  lru_cache(cache, <<PyInt(ndim_ab), sysa>>,
            get_cntrct_inds_ptr_dot_body(ndim_ab, sysa))

\* a slip: the sysa branch gives the fresh label to the AB ket as well
ptr_ppt_dot_step_fresh_ket(i, sysa, sysb, st) ==
  IF In(i, sysa)
  THEN [inds_ab_ket |-> Append(st.inds_ab_ket, st.upper),
        inds_abc_bra |-> Append(st.inds_abc_bra, st.upper),
        inds_abc_ket |-> Append(st.inds_abc_ket, i),
        inds_out |-> Append(st.inds_out, st.upper),
        upper |-> st.upper + 1]
  ELSE IF In(i, sysb)
  THEN [inds_ab_ket |-> Append(st.inds_ab_ket, st.upper),
        inds_abc_bra |-> Append(st.inds_abc_bra, st.upper),
        inds_abc_ket |-> Append(st.inds_abc_ket, i),
        inds_out |-> Append(st.inds_out, i),
        upper |-> st.upper + 1]
  ELSE [inds_ab_ket |-> st.inds_ab_ket,
        inds_abc_bra |-> Append(st.inds_abc_bra, i),
        inds_abc_ket |-> Append(st.inds_abc_ket, i),
        inds_out |-> st.inds_out,
        upper |-> st.upper]

\* a slip: the sysa branch records the original index as output label
ptr_ppt_dot_step_out_orig(i, sysa, sysb, st) ==
  IF In(i, sysa)
  THEN [inds_ab_ket |-> Append(st.inds_ab_ket, i),
        inds_abc_bra |-> Append(st.inds_abc_bra, st.upper),
        inds_abc_ket |-> Append(st.inds_abc_ket, i),
        inds_out |-> Append(st.inds_out, i),
        upper |-> st.upper + 1]
  ELSE IF In(i, sysb)
  THEN [inds_ab_ket |-> Append(st.inds_ab_ket, st.upper),
        inds_abc_bra |-> Append(st.inds_abc_bra, st.upper),
        inds_abc_ket |-> Append(st.inds_abc_ket, i),
        inds_out |-> Append(st.inds_out, i),
        upper |-> st.upper + 1]
  ELSE [inds_ab_ket |-> st.inds_ab_ket,
        inds_abc_bra |-> Append(st.inds_abc_bra, i),
        inds_abc_ket |-> Append(st.inds_abc_ket, i),
        inds_out |-> st.inds_out,
        upper |-> st.upper]

\* one pass of the loop of get_cntrct_inds_ptr_ppt_dot
ptr_ppt_dot_step(i, sysa, sysb, st) ==
  IF In(i, sysa)
  THEN [inds_ab_ket |-> Append(st.inds_ab_ket, i),
        inds_abc_bra |-> Append(st.inds_abc_bra, st.upper),
        inds_abc_ket |-> Append(st.inds_abc_ket, i),
        inds_out |-> Append(st.inds_out, st.upper),
        upper |-> st.upper + 1]
  ELSE IF In(i, sysb)
  THEN [inds_ab_ket |-> Append(st.inds_ab_ket, st.upper),
        inds_abc_bra |-> Append(st.inds_abc_bra, st.upper),
        inds_abc_ket |-> Append(st.inds_abc_ket, i),
        inds_out |-> Append(st.inds_out, i),
        upper |-> st.upper + 1]
  ELSE [inds_ab_ket |-> st.inds_ab_ket,
        inds_abc_bra |-> Append(st.inds_abc_bra, i),
        inds_abc_ket |-> Append(st.inds_abc_ket, i),
        inds_out |-> st.inds_out,
        upper |-> st.upper]

RECURSIVE ptr_ppt_dot_loop(_, _, _, _, _)
ptr_ppt_dot_loop(i, ndim_abc, sysa, sysb, st) ==
  IF i >= ndim_abc THEN st
  ELSE ptr_ppt_dot_loop(i + 1, ndim_abc, sysa, sysb,
                        ptr_ppt_dot_step(i, sysa, sysb, st))

\* the body of get_cntrct_inds_ptr_ppt_dot: "i in sysa" is evaluated first
\* and "i in sysb" only when it is false
get_cntrct_inds_ptr_ppt_dot_body(ndim_abc, sysa, sysb) ==
  IF ndim_abc > 0 /\ ~Iterable(sysa) THEN Raise("TypeError")
  ELSE IF ~Iterable(sysb) /\ \E i \in 0..(ndim_abc - 1) : ~In(i, sysa)
  THEN Raise("TypeError")
  ELSE LET st == ptr_ppt_dot_loop(0, ndim_abc, sysa, sysb,
                   [inds_ab_ket |-> <<>>, inds_abc_bra |-> <<>>,
                    inds_abc_ket |-> <<>>, inds_out |-> <<>>,
                    upper |-> ndim_abc])
       IN Ok([inds_ab_ket |-> st.inds_ab_ket,
              inds_abc_bra |-> st.inds_abc_bra,
              inds_abc_ket |-> st.inds_abc_ket,
              inds_out |-> st.inds_out])

get_cntrct_inds_ptr_ppt_dot(cache, ndim_abc, sysa, sysb) ==
  lru_cache(cache, <<PyInt(ndim_abc), sysa, sysb>>,
            get_cntrct_inds_ptr_ppt_dot_body(ndim_abc, sysa, sysb))

(***************************************************************************)
(* Dense tensors: [shape, data], data in row-major (C) order, and the      *)
(* contraction primitive einsum in its interleaved form                    *)
(* einsum(op1, labels1, op2, labels2, ..., [labels_out]).                  *)
(***************************************************************************)
Front(s) == SubSeq(s, 1, Len(s) - 1)
Last(s) == s[Len(s)]

\* the flat (0-based) position of the multi-index idx in an array of this
\* shape: ((idx[1] * shape[2] + idx[2]) * shape[3] + idx[3]) ...
RECURSIVE RavelFrom(_, _, _, _)
RavelFrom(k, acc, idx, shape) ==
  IF k > Len(shape) THEN acc
  ELSE RavelFrom(k + 1, acc * shape[k] + idx[k], idx, shape)
Ravel(idx, shape) == RavelFrom(1, 0, idx, shape)

RECURSIVE Unravel(_, _)
Unravel(f, shape) ==
  IF shape = <<>> THEN <<>>
  ELSE Append(Unravel(f \div Last(shape), Front(shape)), f % Last(shape))

At(T, idx) == T.data[Ravel(idx, T.shape) + 1]

\* a slip: a vector that is too long is accepted (and cut)
CanReshapeTruncating(vec, shape) == Prod(shape) <= Len(vec)

\* numpy's x.reshape(shape) of a flat vector: ValueError unless the sizes agree
CanReshape(vec, shape) == Prod(shape) = Len(vec)
reshape(vec, shape) == [shape |-> Seq1(shape), data |-> vec]

conjugate(T) ==
  [shape |-> T.shape, data |-> Seq1([k \in 1..Len(T.data) |-> GConj(T.data[k])])]

Labels(subs) == UNION {Range(subs[k]) : k \in 1..Len(subs)}
Occurrences(l, subs) ==
  {kp \in UNION {{<<k, p>> : p \in 1..Len(subs[k])} : k \in 1..Len(subs)} :
     subs[kp[1]][kp[2]] = l}
LabelDim(l, ops, subs) ==
  LET kp == CHOOSE kp \in Occurrences(l, subs) : TRUE
  IN ops[kp[1]].shape[kp[2]]

\* without an output sequence the result carries the labels that occur
\* once, in sorted order
ImplicitOut(subs) ==
  SortedSeq({l \in Labels(subs) : Cardinality(Occurrences(l, subs)) = 1})

\* the product of the operands' entries under an assignment of indices to
\* labels: env[l + 1] is the index of label l
RECURSIVE Term(_, _, _, _)
Term(k, env, ops, subs) ==
  IF k > Len(ops) THEN GOne
  ELSE GMul(At(ops[k], [p \in 1..Len(subs[k]) |-> env[subs[k][p] + 1]]),
            Term(k + 1, env, ops, subs))

\* the sum of Term over all indices of the labels in summed (a sequence);
\* ldim[l + 1] is the dimension of label l
RECURSIVE SumOver(_, _, _, _, _)
RECURSIVE SumRange(_, _, _, _, _, _)
SumOver(summed, env, ldim, ops, subs) ==
  IF summed = <<>> THEN Term(1, env, ops, subs)
  ELSE SumRange(0, summed, env, ldim, ops, subs)
SumRange(v, summed, env, ldim, ops, subs) ==
  IF v >= ldim[Head(summed) + 1] THEN GZero
  ELSE GAdd(Bind([env EXCEPT ![Head(summed) + 1] = v],
                 LAMBDA e : SumOver(Tail(summed), e, ldim, ops, subs)),
            SumRange(v + 1, summed, env, ldim, ops, subs))

\* labels are the integers 0 .. NLabels - 1 at most
NLabels(subs) == IF Labels(subs) = {} THEN 0
                 ELSE 1 + CHOOSE l \in Labels(subs) : \A m \in Labels(subs) : m <= l
LabelDims(ops, subs) ==
  Seq1([k \in 1..NLabels(subs) |->
          IF (k - 1) \in Labels(subs) THEN LabelDim(k - 1, ops, subs) ELSE 1])

\* the contraction with the operands, label sequences, dimensions of the
\* labels and summed labels given as values
Contract(ops, subs, out, ldim, summed) ==
  LET EnvOf(f, shape) ==
        LET idx == Unravel(f, shape)
        IN Seq1([k \in 1..Len(ldim) |->
                   IF (k - 1) \in Range(out)
                   THEN idx[CHOOSE j \in 1..Len(out) : out[j] = k - 1]
                   ELSE 0])
  IN Bind(Seq1([k \in 1..Len(out) |-> ldim[out[k] + 1]]), LAMBDA shape :
       [shape |-> shape,
        data |-> Seq1([f \in 1..Prod(shape) |->
                         Bind(EnvOf(f - 1, shape),
                              LAMBDA e : SumOver(summed, e, ldim, ops, subs))])])

einsum_out(ops, subs, out) ==
  Bind(ops, LAMBDA o :
  Bind([k \in 1..Len(subs) |-> Seq1(subs[k])], LAMBDA s :
  Bind(Seq1(out), LAMBDA u :
  Bind(LabelDims(o, s), LAMBDA ldim :
  Bind(SortedSeq(Labels(s) \ Range(u)), LAMBDA summed :
    Contract(o, s, u, ldim, summed))))))

einsum(ops, subs) == einsum_out(ops, subs, ImplicitOut(subs))

(***************************************************************************)
(* The lazy contractions.  A ket is the flat sequence of its entries; the  *)
(* caches are passed in and handed back with the outcome.                  *)
(***************************************************************************)
\* [d for i, d in enumerate(dims) if <i is kept>]
\* no plan was asked for
NoPlan == [tag |-> "none"]

Keep(dims, kept) ==
  LET idx == SortedSeq({i \in 0..(Len(dims) - 1) : kept[i]})
  IN [k \in 1..Len(idx) |-> dims[idx[k] + 1]]

\* a slip: the ket copy conjugated instead of the bra copy
ptr_dot_einsum_conj_ket(psi_a_tensor, psi_ab_tensor, plan) ==
  einsum(<<psi_a_tensor, psi_ab_tensor, conjugate(psi_ab_tensor)>>,
         <<plan.inds_a_ket, plan.inds_ab_bra, plan.inds_ab_ket>>)

\* the einsum call of lazy_ptr_dot
ptr_dot_einsum(psi_a_tensor, psi_ab_tensor, plan) ==
  einsum(<<psi_a_tensor, conjugate(psi_ab_tensor), psi_ab_tensor>>,
         <<plan.inds_a_ket, plan.inds_ab_bra, plan.inds_ab_ket>>)

\* outcome of lazy_ptr_dot(psi_ab, psi_a, dims, sysa): [ret, cache,
\* contracted], contracted telling whether einsum was invoked
lazy_ptr_dot(cache, psi_ab, psi_a, dims0, sysa0) ==
  IF dims0.t = "None" /\ Len(psi_a) = 0
  THEN [ret |-> Raise("ZeroDivisionError"), cache |-> cache, contracted |-> FALSE,
        ran |-> FALSE, plan |-> NoPlan]
  ELSE
  LET dims == IF dims0.t = "None"
              THEN <<Len(psi_a), Len(psi_ab) \div Len(psi_a)>>
              ELSE dims0.v
      sysa == int2tup(sysa0)
      ndim_ab == Len(dims)
      dims_a == Keep(dims, [i \in 0..(ndim_ab - 1) |-> In(i, sysa)])
  IN Bind(get_cntrct_inds_ptr_dot(cache, ndim_ab, sysa), LAMBDA planned :
       IF planned.ret.tag = "raise"
       THEN [ret |-> planned.ret, cache |-> planned.cache, contracted |-> FALSE,
             ran |-> planned.ran, plan |-> planned.ret]
       ELSE IF ~CanReshape(psi_ab, dims) \/ ~CanReshape(psi_a, dims_a)
       THEN [ret |-> Raise("ValueError"), cache |-> planned.cache,
             contracted |-> FALSE,
             ran |-> planned.ran, plan |-> planned.ret]
       ELSE [ret |-> Ok(ptr_dot_einsum(reshape(psi_a, dims_a),
                                       reshape(psi_ab, dims),
                                       planned.ret.val).data),
             cache |-> planned.cache, contracted |-> TRUE,
             ran |-> planned.ran, plan |-> planned.ret])

\* a slip: the output label sequence left out
ptr_ppt_dot_einsum_no_out(psi_ab_tensor, psi_abc_tensor, plan) ==
  einsum(<<psi_ab_tensor, conjugate(psi_abc_tensor), psi_abc_tensor>>,
         <<plan.inds_ab_ket, plan.inds_abc_bra, plan.inds_abc_ket>>)

\* the einsum call of lazy_ptr_ppt_dot
ptr_ppt_dot_einsum(psi_ab_tensor, psi_abc_tensor, plan) ==
  einsum_out(<<psi_ab_tensor, conjugate(psi_abc_tensor), psi_abc_tensor>>,
             <<plan.inds_ab_ket, plan.inds_abc_bra, plan.inds_abc_ket>>,
             plan.inds_out)

lazy_ptr_ppt_dot(cache, psi_abc, psi_ab, dims0, sysa0, sysb0) ==
  LET dims == dims0.v
      sysa == int2tup(sysa0)
      sysb == int2tup(sysb0)
      dims_ab == Keep(dims, [i \in 0..(Len(dims) - 1) |->
                              In(i, sysa) \/ In(i, sysb)])
  IN Bind(get_cntrct_inds_ptr_ppt_dot(cache, Len(dims), sysa, sysb), LAMBDA planned :
       IF planned.ret.tag = "raise"
       THEN [ret |-> planned.ret, cache |-> planned.cache, contracted |-> FALSE,
             ran |-> planned.ran, plan |-> planned.ret]
       ELSE IF ~CanReshape(psi_abc, dims) \/ ~CanReshape(psi_ab, dims_ab)
       THEN [ret |-> Raise("ValueError"), cache |-> planned.cache,
             contracted |-> FALSE,
             ran |-> planned.ran, plan |-> planned.ret]
       ELSE [ret |-> Ok(ptr_ppt_dot_einsum(reshape(psi_ab, dims_ab),
                                           reshape(psi_abc, dims),
                                           planned.ret.val).data),
             cache |-> planned.cache, contracted |-> TRUE,
             ran |-> planned.ran, plan |-> planned.ret])

(***************************************************************************)
(* State.                                                                  *)
(***************************************************************************)
VARIABLES
  pc,                 \* where the run stands
  call,               \* the call being made: its function and arguments
  ret,                \* the outcome of the last call
  einsum_calls,       \* how often the contraction primitive was invoked
  cache_ptr_dot,      \* the lru cache of get_cntrct_inds_ptr_dot
  cache_ptr_ppt_dot,  \* the lru cache of get_cntrct_inds_ptr_ppt_dot
  prev,               \* the call made before this one, with its outcome
  handles,            \* the operator handles alive, in order of construction
  applied,            \* the _matvec calls made on handles, with their outcomes
  k_lanczos,          \* construct_lanczos_tridiag: the loop index k
  alpha,              \* construct_lanczos_tridiag: diagonal entries, alpha[0..M]
  beta,               \* construct_lanczos_tridiag: off-diagonal, beta[0..M+1]
  vk,                 \* construct_lanczos_tridiag: the Krylov columns written
  tridiag,            \* what construct_lanczos_tridiag handed back
  quad,               \* gen_vals: the sum of the M terms of this restart
  restart,            \* gen_vals: restarts completed
  matvecs,            \* how often A.dot was applied
  terms,              \* gen_vals: terms yielded to sum()
  total,              \* sum(): the running sum
  requests,           \* the planner requests made so far, with what came of them
  arrays              \* the site arrays handed to the network constructor

opvars == <<handles, applied>>
lzvars == <<k_lanczos, alpha, beta, vk, tridiag, quad, restart, matvecs, terms, total>>
vars == <<pc, call, ret, einsum_calls, cache_ptr_dot, cache_ptr_ppt_dot, prev,
          opvars, lzvars, requests, arrays>>

NoRet == [tag |-> "none"]

\* no operator handle has been built
OpIdle == handles = <<>> /\ applied = <<>>

\* no Lanczos run has begun
LzIdle ==
  /\ k_lanczos = 0 /\ alpha = <<>> /\ beta = <<>> /\ vk = <<>>
  /\ tridiag = NoRet /\ quad = 0
  /\ restart = 0 /\ matvecs = 0 /\ terms = 0 /\ total = 0

(***************************************************************************)
(* Inputs.                                                                 *)
(***************************************************************************)
MaxNdim == 3    \* subsystems
MaxDim == 3     \* dimension of one subsystem
MaxSize == 8    \* dimension of the whole space

\* dimension vectors: positive entries, at most one of them 1
DimsOfLen(n) ==
  {d \in [1..n -> 1..MaxDim] :
     Prod(d) <= MaxSize /\ Cardinality({k \in 1..n : d[k] = 1}) <= 1}
Dims == UNION {DimsOfLen(n) : n \in 1..MaxNdim}

Reverse(s) == [k \in 1..Len(s) |-> s[Len(s) + 1 - k]]

\* the ways python code may name the subset S of subsystems
ReprKinds == {"tuple", "reversed", "list", "set", "int"}
ReprAs(kind, S) ==
  CASE kind = "tuple" -> PyTuple(SortedSeq(S))
    [] kind = "reversed" -> PyTuple(Reverse(SortedSeq(S)))
    [] kind = "list" -> PyList(SortedSeq(S))
    [] kind = "set" -> PySet(S)
    [] kind = "int" -> IF Cardinality(S) = 1 THEN PyInt(CHOOSE i \in S : TRUE)
                       ELSE PyTuple(SortedSeq(S))
Reprs(S) == {ReprAs(kind, S) : kind \in ReprKinds}

\* kets of length n: one whose entries all differ and a basis ket
Unit(n, j) == [k \in 1..n |-> IF k = j THEN GOne ELSE GZero]
Generic(n) == [k \in 1..n |-> <<k, ((k * k) % 5) - 2>>]
Kets(n) == {Generic(n), Unit(n, n)}
\* the kets acted on: another with different entries, and i times a basis ket
Vecs(n) == {[k \in 1..n |-> <<((k * k) % 3) - 1, k>>],
            [k \in 1..n |-> IF k = 1 THEN GI ELSE GZero]}

KeptDims(dims, S) == Keep(dims, [i \in 0..(Len(dims) - 1) |-> i \in S])

\* the subsystems of a space with these dims, its non-empty subsets and
\* its pairs of disjoint subsets that are not both empty
All(dims) == 0..(Len(dims) - 1)
Subsets(dims) == (SUBSET All(dims)) \ {{}}
DisjointPairs(dims) ==
  {AB \in (SUBSET All(dims)) \X (SUBSET All(dims)) :
     AB[1] \cap AB[2] = {} /\ AB[1] \cup AB[2] # {}}

\* lengths next to n
Near(n) == {n - 1, n + 1} \ {0}

Call(fn, psi, vec, dims, sysa, sysb) ==
  [fn |-> fn, psi |-> psi, vec |-> vec, dims |-> dims, sysa |-> sysa, sysb |-> sysb]

PtrDotCalls ==
  \* well-formed calls, the subset a sorted tuple
  UNION {UNION {
    {Call("lazy_ptr_dot", psi, vec, PyTuple(dims), PyTuple(SortedSeq(S)), PyNone) :
       psi \in Kets(Prod(dims)), vec \in Vecs(Prod(KeptDims(dims, S)))}
    \* the subset named in other ways
    \cup {Call("lazy_ptr_dot", Generic(Prod(dims)), Generic(Prod(KeptDims(dims, S))),
               PyTuple(dims), rep, PyNone) : rep \in Reprs(S)}
    \* kets of the wrong length
    \cup {Call("lazy_ptr_dot", Generic(n), Generic(Prod(KeptDims(dims, S))),
               PyTuple(dims), PyTuple(SortedSeq(S)), PyNone) : n \in Near(Prod(dims))}
    \cup {Call("lazy_ptr_dot", Generic(Prod(dims)), Generic(n),
               PyTuple(dims), PyTuple(SortedSeq(S)), PyNone) :
            n \in Near(Prod(KeptDims(dims, S)))}
    \* a subset with an index that is out of range
    \cup {Call("lazy_ptr_dot", Generic(Prod(dims)), Generic(Prod(KeptDims(dims, S))),
               PyTuple(dims), PyTuple(Append(SortedSeq(S), x)), PyNone) :
            x \in {-1, Len(dims)}}
    : S \in Subsets(dims)} : dims \in Dims}
  \* dims omitted: the bipartition is inferred from the lengths
  \cup {Call("lazy_ptr_dot", Generic(d), Generic(da), PyNone, PyInt(i), PyNone) :
          d \in 1..MaxSize, da \in 1..MaxSize, i \in {0, 1}}

PtrPptDotCalls ==
  UNION {UNION {
    {Call("lazy_ptr_ppt_dot", psi, vec, PyTuple(dims),
          PyTuple(SortedSeq(AB[1])), PyTuple(SortedSeq(AB[2]))) :
       psi \in Kets(Prod(dims)), vec \in Vecs(Prod(KeptDims(dims, AB[1] \cup AB[2])))}
    \cup {Call("lazy_ptr_ppt_dot", Generic(Prod(dims)),
               Generic(Prod(KeptDims(dims, AB[1] \cup AB[2]))),
               PyTuple(dims), ReprAs(k, AB[1]), ReprAs(k, AB[2])) : k \in ReprKinds}
    \cup {Call("lazy_ptr_ppt_dot", Generic(n),
               Generic(Prod(KeptDims(dims, AB[1] \cup AB[2]))), PyTuple(dims),
               PyTuple(SortedSeq(AB[1])), PyTuple(SortedSeq(AB[2]))) :
            n \in Near(Prod(dims))}
    \cup {Call("lazy_ptr_ppt_dot", Generic(Prod(dims)), Generic(n), PyTuple(dims),
               PyTuple(SortedSeq(AB[1])), PyTuple(SortedSeq(AB[2]))) :
            n \in Near(Prod(KeptDims(dims, AB[1] \cup AB[2])))}
    \* an index that is out of range, or in both subsets
    \cup {Call("lazy_ptr_ppt_dot", Generic(Prod(dims)),
               Generic(Prod(KeptDims(dims, AB[1] \cup AB[2]))), PyTuple(dims),
               PyTuple(SortedSeq(AB[1])), PyTuple(Append(SortedSeq(AB[2]), x))) :
            x \in {-1, Len(dims)} \cup AB[1]}
    : AB \in DisjointPairs(dims)} : dims \in Dims}

DotInit ==
  /\ pc = "start"
  /\ call \in PtrDotCalls \cup PtrPptDotCalls
  /\ ret = NoRet
  /\ einsum_calls = 0
  /\ cache_ptr_dot = <<>>
  /\ cache_ptr_ppt_dot = <<>>
  /\ prev = NoRet
  /\ OpIdle /\ LzIdle /\ requests = <<>> /\ arrays = <<>>

CallLazyPtrDot ==
  /\ pc = "start"
  /\ call.fn = "lazy_ptr_dot"
  /\ \E r \in {lazy_ptr_dot(cache_ptr_dot, call.psi, call.vec, call.dims, call.sysa)} :
        /\ ret' = r.ret
        /\ cache_ptr_dot' = r.cache
        /\ einsum_calls' = einsum_calls + (IF r.contracted THEN 1 ELSE 0)
  /\ pc' = "done"
  /\ UNCHANGED <<call, cache_ptr_ppt_dot, prev, opvars, lzvars, requests, arrays>>

CallLazyPtrPptDot ==
  /\ pc = "start"
  /\ call.fn = "lazy_ptr_ppt_dot"
  /\ \E r \in {lazy_ptr_ppt_dot(cache_ptr_ppt_dot, call.psi, call.vec, call.dims,
                                call.sysa, call.sysb)} :
        /\ ret' = r.ret
        /\ cache_ptr_ppt_dot' = r.cache
        /\ einsum_calls' = einsum_calls + (IF r.contracted THEN 1 ELSE 0)
  /\ pc' = "done"
  /\ UNCHANGED <<call, cache_ptr_dot, prev, opvars, lzvars, requests, arrays>>

DotNext == CallLazyPtrDot \/ CallLazyPtrPptDot

SpecDot == DotInit /\ [][DotNext]_vars

(***************************************************************************)
(* The planners called directly: a call, then the same subsets asked for   *)
(* once more, named in any way.                                            *)
(***************************************************************************)
PlanCall(fn, ndim, sysa, sysb) ==
  [fn |-> fn, ndim |-> ndim, sysa |-> sysa, sysb |-> sysb]

\* subsets of the indices 0 .. ndim, of which ndim is out of range
PlanCalls ==
  UNION {
    {PlanCall("get_cntrct_inds_ptr_dot", ndim, rep, PyNone) :
       rep \in UNION {Reprs(S) : S \in SUBSET (0..ndim)}}
    \cup UNION {
      {PlanCall("get_cntrct_inds_ptr_ppt_dot", ndim, ReprAs(k, AB[1]), ReprAs(k, AB[2])) :
         k \in ReprKinds} : AB \in (SUBSET (0..ndim)) \X (SUBSET (0..ndim))}
    : ndim \in 1..MaxNdim}

PlanInit ==
  /\ pc = "start"
  /\ call \in PlanCalls
  /\ ret = NoRet
  /\ einsum_calls = 0
  /\ cache_ptr_dot = <<>>
  /\ cache_ptr_ppt_dot = <<>>
  /\ prev = NoRet
  /\ OpIdle /\ LzIdle /\ requests = <<>> /\ arrays = <<>>

CallPlannerPtrDot ==
  /\ pc = "start"
  /\ call.fn = "get_cntrct_inds_ptr_dot"
  /\ \E r \in {get_cntrct_inds_ptr_dot(cache_ptr_dot, call.ndim, call.sysa)} :
        /\ ret' = r.ret
        /\ cache_ptr_dot' = r.cache
  /\ pc' = "returned"
  /\ UNCHANGED <<call, einsum_calls, cache_ptr_ppt_dot, prev, opvars, lzvars, requests, arrays>>

CallPlannerPtrPptDot ==
  /\ pc = "start"
  /\ call.fn = "get_cntrct_inds_ptr_ppt_dot"
  /\ \E r \in {get_cntrct_inds_ptr_ppt_dot(cache_ptr_ppt_dot, call.ndim,
                                           call.sysa, call.sysb)} :
        /\ ret' = r.ret
        /\ cache_ptr_ppt_dot' = r.cache
  /\ pc' = "returned"
  /\ UNCHANGED <<call, einsum_calls, cache_ptr_dot, prev, opvars, lzvars, requests, arrays>>

\* the caller asks again for the same subsets, named as it likes
AskAgain ==
  /\ pc = "returned"
  /\ prev = NoRet
  /\ \E c \in PlanCalls :
        /\ c.fn = call.fn /\ c.ndim = call.ndim
        /\ Range(c.sysa.v) = Range(call.sysa.v)
        /\ Range(c.sysb.v) = Range(call.sysb.v)
        /\ call' = c
  /\ prev' = [tag |-> "call", call |-> call, ret |-> ret]
  /\ pc' = "start"
  /\ UNCHANGED <<ret, einsum_calls, cache_ptr_dot, cache_ptr_ppt_dot, opvars, lzvars, requests, arrays>>

PlanNext == CallPlannerPtrDot \/ CallPlannerPtrPptDot \/ AskAgain

SpecPlan == PlanInit /\ [][PlanNext]_vars

(***************************************************************************)
(* The operator handles LazyPtrOperatr and LazyPtrPptOperator.             *)
(***************************************************************************)
\* numpy's psi.conjugate() of a flat ket
ket_conjugate(psi) == Seq1([j \in 1..Len(psi) |-> GConj(psi[j])])

\* psi.dtype: every ket drawn here is complex
dtype(psi) == "complex128"

\* LazyPtrOperatr.__init__
LazyPtrOperatr(psi_ab, dims, sysa0) ==
  LET sysa == int2tup(sysa0)
      dims_a == Keep(dims.v, [i \in 0..(Len(dims.v) - 1) |-> In(i, sysa)])
      sz_a == Prod(dims_a)
  IN [cls |-> "LazyPtrOperatr", psi |-> psi_ab, dims |-> dims, sysa |-> sysa,
      sysb |-> PyNone, dtype |-> dtype(psi_ab), shape |-> <<sz_a, sz_a>>]

\* LazyPtrPptOperator.__init__
LazyPtrPptOperator(psi_abc, dims, sysa0, sysb0) ==
  LET sysa == int2tup(sysa0)
      sysb == int2tup(sysb0)
      sys_ab == PyTuple(sysa.v \o sysb.v)
      sz_ab == Prod(Keep(dims.v, [i \in 0..(Len(dims.v) - 1) |-> In(i, sys_ab)]))
  IN [cls |-> "LazyPtrPptOperator", psi |-> psi_abc, dims |-> dims, sysa |-> sysa,
      sysb |-> sysb, dtype |-> dtype(psi_abc), shape |-> <<sz_ab, sz_ab>>]

\* self.__class__(...)
Construct(cls, psi, dims, sysa, sysb) ==
  IF cls = "LazyPtrOperatr" THEN LazyPtrOperatr(psi, dims, sysa)
  ELSE LazyPtrPptOperator(psi, dims, sysa, sysb)

\* _matvec of either class: [ret, cache, contracted], the cache being the one
\* of the planner the class uses
_matvec(self, cache, vec) ==
  IF self.cls = "LazyPtrOperatr"
  THEN lazy_ptr_dot(cache, self.psi, vec, self.dims, self.sysa)
  ELSE lazy_ptr_ppt_dot(cache, self.psi, vec, self.dims, self.sysa, self.sysb)

\* _adjoint of either class
_adjoint(self) ==
  Construct(self.cls, ket_conjugate(self.psi), self.dims, self.sysa, self.sysb)

MaxHandles == 2
MaxApplies == 2

OpCall(cls, psi, dims, sysa, sysb, u, v) ==
  [fn |-> cls, psi |-> psi, dims |-> dims, sysa |-> sysa, sysb |-> sysb,
   u |-> u, v |-> v]

\* bipartite dims with no trivial subsystem
MaxOpSize == 6
OpDims ==
  {dims \in Dims : Len(dims) = 2 /\ Prod(dims) <= MaxOpSize /\ \A j \in 1..2 : dims[j] > 1}

\* a complex ket and a real one
OpKets(n) == {Generic(n), [j \in 1..n |-> <<j, 0>>]}

OpCalls ==
  UNION {
    UNION {
      {OpCall("LazyPtrOperatr", psi, PyTuple(dims), PyTuple(SortedSeq(S)), PyNone,
              Generic(Prod(KeptDims(dims, S))), v) :
         psi \in OpKets(Prod(dims)), v \in Vecs(Prod(KeptDims(dims, S)))}
      : S \in Subsets(dims)}
    \cup UNION {
      {OpCall("LazyPtrPptOperator", psi, PyTuple(dims), PyTuple(SortedSeq(AB[1])),
              PyTuple(SortedSeq(AB[2])),
              Generic(Prod(KeptDims(dims, AB[1] \cup AB[2]))), v) :
         psi \in OpKets(Prod(dims)),
         v \in Vecs(Prod(KeptDims(dims, AB[1] \cup AB[2])))}
      : AB \in DisjointPairs(dims)}
    : dims \in OpDims}

OpInit ==
  /\ pc = "start"
  /\ call \in OpCalls
  /\ ret = NoRet
  /\ einsum_calls = 0
  /\ cache_ptr_dot = <<>>
  /\ cache_ptr_ppt_dot = <<>>
  /\ prev = NoRet
  /\ OpIdle /\ LzIdle /\ requests = <<>> /\ arrays = <<>>

\* the caller builds the handle
NewOperator ==
  /\ pc = "start"
  /\ handles' = <<Construct(call.fn, call.psi, call.dims, call.sysa, call.sysb)>>
  /\ pc' = "built"
  /\ UNCHANGED <<call, ret, einsum_calls, cache_ptr_dot, cache_ptr_ppt_dot, prev,
                 applied, lzvars, requests, arrays>>

\* a slip: the adjoint conjugates the handle it is taken of, in place
AdjointInPlace ==
  /\ pc = "built"
  /\ Len(handles) < MaxHandles
  /\ \E h \in 1..Len(handles) :
       handles' = Append([handles EXCEPT ![h] = _adjoint(handles[h])],
                         _adjoint(handles[h]))
  /\ UNCHANGED <<pc, call, ret, einsum_calls, cache_ptr_dot, cache_ptr_ppt_dot, prev,
                 applied, lzvars, requests, arrays>>

\* the caller takes the adjoint of a handle
Adjoint ==
  /\ pc = "built"
  /\ Len(handles) < MaxHandles
  /\ \E h \in 1..Len(handles) : handles' = Append(handles, _adjoint(handles[h]))
  /\ UNCHANGED <<pc, call, ret, einsum_calls, cache_ptr_dot, cache_ptr_ppt_dot, prev,
                 applied, lzvars, requests, arrays>>

\* the caller applies a handle to one of its two vectors
Apply ==
  /\ pc = "built"
  /\ Len(applied) < MaxApplies
  /\ \E h \in 1..Len(handles), vec \in {call.u, call.v} :
       LET ptr == handles[h].cls = "LazyPtrOperatr"
       IN \E r \in {_matvec(handles[h],
                            IF ptr THEN cache_ptr_dot ELSE cache_ptr_ppt_dot, vec)} :
            /\ ret' = r.ret
            /\ applied' = Append(applied, [h |-> h, vec |-> vec, ret |-> r.ret])
            /\ cache_ptr_dot' = IF ptr THEN r.cache ELSE cache_ptr_dot
            /\ cache_ptr_ppt_dot' = IF ptr THEN cache_ptr_ppt_dot ELSE r.cache
            /\ einsum_calls' = einsum_calls + (IF r.contracted THEN 1 ELSE 0)
  /\ UNCHANGED <<pc, call, prev, handles, lzvars, requests, arrays>>

OpNext == NewOperator \/ Adjoint \/ Apply

SpecOp == OpInit /\ [][OpNext]_vars

(***************************************************************************)
(* A caller that makes lazy calls one after another, the planners' caches  *)
(* living on between the calls.                                             *)
(***************************************************************************)
MaxCalls == 2

\* dims of two-level subsystems
CacheDims == {dims \in Dims : \A j \in 1..Len(dims) : dims[j] = 2}

CacheCalls ==
  UNION {
    UNION {
      {Call("lazy_ptr_dot", Generic(Prod(dims)), Generic(Prod(KeptDims(dims, S))),
            PyTuple(dims), rep, PyNone) : rep \in Reprs(S)}
      : S \in Subsets(dims)}
    \cup UNION {
      {Call("lazy_ptr_ppt_dot", Generic(Prod(dims)),
            Generic(Prod(KeptDims(dims, AB[1] \cup AB[2]))), PyTuple(dims),
            ReprAs(kind, AB[1]), ReprAs(kind, AB[2])) : kind \in {"tuple", "reversed"}}
      : AB \in DisjointPairs(dims)}
    : dims \in CacheDims}

\* a request as the planner's cache should tell them apart: the subsystem
\* count and the subsets, with what the planner did
Request(c, r) ==
  [fn |-> c.fn, ndim |-> Len(c.dims.v),
   sysa |-> Range(c.sysa.v), sysb |-> Range(c.sysb.v),
   ran |-> r.ran, plan |-> r.plan]

CacheInit ==
  /\ pc = "idle"
  /\ call = [fn |-> "none"]
  /\ ret = NoRet
  /\ einsum_calls = 0
  /\ cache_ptr_dot = <<>>
  /\ cache_ptr_ppt_dot = <<>>
  /\ prev = NoRet
  /\ OpIdle /\ LzIdle /\ requests = <<>> /\ arrays = <<>>

NextLazyPtrDot ==
  /\ pc = "idle"
  /\ Len(requests) < MaxCalls
  /\ \E c \in CacheCalls :
       /\ c.fn = "lazy_ptr_dot"
       /\ call' = c
       /\ \E r \in {lazy_ptr_dot(cache_ptr_dot, c.psi, c.vec, c.dims, c.sysa)} :
            /\ ret' = r.ret
            /\ cache_ptr_dot' = r.cache
            /\ einsum_calls' = einsum_calls + (IF r.contracted THEN 1 ELSE 0)
            /\ requests' = Append(requests, Request(c, r))
  /\ UNCHANGED <<pc, cache_ptr_ppt_dot, prev, opvars, lzvars, arrays>>

NextLazyPtrPptDot ==
  /\ pc = "idle"
  /\ Len(requests) < MaxCalls
  /\ \E c \in CacheCalls :
       /\ c.fn = "lazy_ptr_ppt_dot"
       /\ call' = c
       /\ \E r \in {lazy_ptr_ppt_dot(cache_ptr_ppt_dot, c.psi, c.vec, c.dims,
                                     c.sysa, c.sysb)} :
            /\ ret' = r.ret
            /\ cache_ptr_ppt_dot' = r.cache
            /\ einsum_calls' = einsum_calls + (IF r.contracted THEN 1 ELSE 0)
            /\ requests' = Append(requests, Request(c, r))
  /\ UNCHANGED <<pc, cache_ptr_dot, prev, opvars, lzvars, arrays>>

CacheNext == NextLazyPtrDot \/ NextLazyPtrPptDot

SpecCache == CacheInit /\ [][CacheNext]_vars

(***************************************************************************)
(* The Lanczos engine.  A float is [nan, re, im]: a complex number with     *)
(* integer parts, or a value that is not finite.  The operators and start   *)
(* vectors drawn keep every norm a perfect square and every quotient whole, *)
(* so that float arithmetic on them is exact (Isqrt and Quot have no value  *)
(* otherwise).                                                              *)
(***************************************************************************)
Num(re, im) == [nan |-> FALSE, re |-> re, im |-> im]
NaN == [nan |-> TRUE, re |-> 0, im |-> 0]

NAdd(x, y) == IF x.nan \/ y.nan THEN NaN ELSE Num(x.re + y.re, x.im + y.im)
NSub(x, y) == IF x.nan \/ y.nan THEN NaN ELSE Num(x.re - y.re, x.im - y.im)
NMul(x, y) ==
  IF x.nan \/ y.nan THEN NaN
  ELSE Num(x.re * y.re - x.im * y.im, x.re * y.im + x.im * y.re)
NConj(x) == IF x.nan THEN NaN ELSE Num(x.re, 0 - x.im)
\* z.real
Real(x) == IF x.nan THEN NaN ELSE Num(x.re, 0)

Abs(n) == IF n < 0 THEN 0 - n ELSE n
Isqrt(n) == CHOOSE r \in 0..n : r * r = n
Quot(a, b) == CHOOSE q \in (0 - Abs(a))..Abs(a) : q * b = a

\* math.sqrt of a float that is not negative
sqrt(x) == IF x.nan THEN NaN ELSE Num(Isqrt(x.re), 0)

\* numpy's x / b for a real b: 0 / 0 is nan and x / 0 is not finite
NDiv(x, b) ==
  IF x.nan \/ b.nan \/ b.re = 0 THEN NaN
  ELSE Num(Quot(x.re, b.re), Quot(x.im, b.re))

\* the sum of the entries of a sequence of floats
RECURSIVE NSum(_)
NSum(xs) == IF Len(xs) = 0 THEN Num(0, 0) ELSE NAdd(NSum(Front(xs)), Last(xs))

\* np.vdot(a, b): the first argument is conjugated
vdot(a, b) == NSum([j \in 1..Len(a) |-> NMul(NConj(a[j]), b[j])])

\* A.dot(v) for a dense A given by rows
dot(A, v) == [i \in 1..Len(A) |-> NSum([j \in 1..Len(v) |-> NMul(A[i][j], v[j])])]

\* w - c * v and w / b, entry by entry
AxMinus(w, c, v) == [j \in 1..Len(w) |-> NSub(w[j], NMul(c, v[j]))]
VecDiv(w, b) == [j \in 1..Len(w) |-> NDiv(w[j], b)]

\* construct_lanczos_tridiag up to its loop: alpha, beta zeroed, vk[:, 0] = 0
\* and vk[:, 1] the normalised start vector
lanczos_begin(A, v0, M) ==
  LET d == Len(A)
  IN [alpha |-> [i \in 0..M |-> Num(0, 0)],
      beta |-> [i \in 0..(M + 1) |-> Num(0, 0)],
      vk |-> [j \in 0..1 |->
                IF j = 0 THEN [i \in 1..d |-> Num(0, 0)]
                ELSE Seq1(VecDiv(v0, sqrt(Real(vdot(v0, v0)))))]]

\* one pass of the loop of construct_lanczos_tridiag, for k = kk
lanczos_step(A, kk, al, be, v) ==
  LET wk0 == Seq1(AxMinus(dot(A, v[kk]), be[kk], v[kk - 1]))
      a == Real(vdot(wk0, v[kk]))
      wk == Seq1(AxMinus(wk0, a, v[kk]))
      b == sqrt(Real(vdot(wk, wk)))
  IN [alpha |-> [al EXCEPT ![kk] = a],
      beta |-> [be EXCEPT ![kk + 1] = b],
      vk |-> [j \in 0..(kk + 1) |-> IF j = kk + 1 THEN Seq1(VecDiv(wk, b)) ELSE v[j]]]

\* what construct_lanczos_tridiag returns: alpha[1:], beta[2:-1]
lanczos_return(al, be, M) ==
  [alpha |-> [i \in 1..M |-> al[i]], beta |-> [i \in 1..(M - 1) |-> be[i + 1]]]

\* lanczos_tridiag_eig: Tk_banded is np.empty, its last lower entry is never
\* written, and eig_banded refuses (check_finite) any entry that is not
\* finite.  The eigenpairs of the tridiagonal matrix stand as the matrix.
lanczos_tridiag_eig(al, be, unwritten_is_finite) ==
  IF \/ \E i \in 1..Len(al) : al[i].nan
     \/ \E i \in 1..Len(be) : be[i].nan
     \/ ~unwritten_is_finite
  THEN Raise("ValueError")
  ELSE Ok([alpha |-> al, beta |-> be])

\* the functions fn drawn: lambda x: 1, lambda x: x, lambda x: x**2
Fns == {"one", "x", "x2"}

\* sum(fn(el[i]) * ev[0, i]**2 for i in range(M)) for the orthonormal
\* eigenpairs of T: the (0, 0) entry of fn(T)
quadrature(fn, T) ==
  IF fn = "one" THEN 1
  ELSE IF fn = "x" THEN T.alpha[1].re
  ELSE T.alpha[1].re * T.alpha[1].re
         + (IF Len(T.beta) > 0 THEN T.beta[1].re * T.beta[1].re ELSE 0)

MaxD == 3
MaxM == 3
MaxR == 2

Identity(d) == [i \in 1..d |-> [j \in 1..d |-> IF i = j THEN Num(1, 0) ELSE Num(0, 0)]]
\* the hopping matrix of a chain, with a phase on the bonds
Chain(d, ph) ==
  [i \in 1..d |-> [j \in 1..d |->
     IF j = i + 1 THEN ph ELSE IF i = j + 1 THEN NConj(ph) ELSE Num(0, 0)]]
LanczosOperators ==
  UNION {{Identity(d), Chain(d, Num(1, 0)), Chain(d, Num(0, 1))} : d \in 1..MaxD}

Basis(d, j, c) == [i \in 1..d |-> IF i = j THEN c ELSE Num(0, 0)]
StartVectors(d) == {Basis(d, 1, Num(1, 0)), Basis(d, d, Num(2, 0)), Basis(d, 1, Num(0, 1))}
NoV0 == <<>>

LanczosCalls ==
  UNION {[fn : {"approx_spectral_function"}, A : {A}, f : Fns, M : 1..MaxM,
          R : 1..MaxR, v0 : StartVectors(Len(A)) \cup {NoV0}]
         : A \in LanczosOperators}

LzInit ==
  /\ pc = "restart"
  /\ call \in LanczosCalls
  /\ ret = NoRet
  /\ einsum_calls = 0
  /\ cache_ptr_dot = <<>>
  /\ cache_ptr_ppt_dot = <<>>
  /\ prev = NoRet
  /\ OpIdle /\ LzIdle /\ requests = <<>> /\ arrays = <<>>

lzframe == <<call, ret, einsum_calls, cache_ptr_dot, cache_ptr_ppt_dot, prev, opvars>>

\* gen_vals enters a restart and construct_lanczos_tridiag sets up; without
\* v0 the start vector is random
BeginRestart ==
  /\ pc = "restart"
  /\ restart < call.R
  /\ \E v0 \in (IF call.v0 = NoV0 THEN StartVectors(Len(call.A)) ELSE {call.v0}) :
       \E b \in {lanczos_begin(call.A, v0, call.M)} :
          /\ alpha' = b.alpha
          /\ beta' = b.beta
          /\ vk' = b.vk
  /\ k_lanczos' = 1
  /\ tridiag' = NoRet
  /\ pc' = "krylov"
  /\ UNCHANGED <<lzframe, quad, restart, matvecs, terms, total, requests, arrays>>

\* one pass of the Krylov loop
LanczosStep ==
  /\ pc = "krylov"
  /\ k_lanczos <= call.M
  /\ \E s \in {lanczos_step(call.A, k_lanczos, alpha, beta, vk)} :
       /\ alpha' = s.alpha
       /\ beta' = s.beta
       /\ vk' = s.vk
  /\ k_lanczos' = k_lanczos + 1
  /\ matvecs' = matvecs + 1
  /\ UNCHANGED <<lzframe, pc, tridiag, quad, restart, terms, total, requests, arrays>>

\* the loop is over: construct_lanczos_tridiag returns
ReturnTridiag ==
  /\ pc = "krylov"
  /\ k_lanczos > call.M
  /\ tridiag' = Ok(lanczos_return(alpha, beta, call.M))
  /\ pc' = "eig"
  /\ UNCHANGED <<lzframe, k_lanczos, alpha, beta, vk, quad, restart, matvecs, terms,
                 total, requests, arrays>>

\* lanczos_tridiag_eig succeeds
Eig ==
  /\ pc = "eig"
  /\ \E fin \in BOOLEAN :
       \E e \in {lanczos_tridiag_eig(tridiag.val.alpha, tridiag.val.beta, fin)} :
          /\ e.tag = "ok"
          /\ quad' = quadrature(call.f, e.val)
  /\ pc' = "yield"
  /\ UNCHANGED <<lzframe, k_lanczos, alpha, beta, vk, tridiag, restart, matvecs, terms,
                 total, requests, arrays>>

\* lanczos_tridiag_eig raises, and the error leaves approx_spectral_function
EigRaises ==
  /\ pc = "eig"
  /\ \E fin \in BOOLEAN :
       \E e \in {lanczos_tridiag_eig(tridiag.val.alpha, tridiag.val.beta, fin)} :
          /\ e.tag = "raise"
          /\ ret' = e
  /\ pc' = "raised"
  /\ UNCHANGED <<call, einsum_calls, cache_ptr_dot, cache_ptr_ppt_dot, prev, opvars,
                 lzvars, requests, arrays>>

\* gen_vals yields the M terms of this restart and sum() adds them
YieldTerms ==
  /\ pc = "yield"
  /\ terms' = terms + call.M
  /\ total' = total + quad
  /\ restart' = restart + 1
  /\ pc' = "restart"
  /\ UNCHANGED <<lzframe, k_lanczos, alpha, beta, vk, tridiag, quad, matvecs, requests, arrays>>

\* gen_vals is exhausted: the sum times A.shape[0] / R, as a fraction
ReturnEstimate ==
  /\ pc = "restart"
  /\ restart = call.R
  /\ ret' = Ok([num |-> total * Len(call.A), den |-> call.R])
  /\ pc' = "returned"
  /\ UNCHANGED <<call, einsum_calls, cache_ptr_dot, cache_ptr_ppt_dot, prev, opvars,
                 lzvars, requests, arrays>>

LzNext ==
  \/ BeginRestart \/ LanczosStep \/ ReturnTridiag
  \/ Eig \/ EigRaises \/ YieldTerms \/ ReturnEstimate

SpecLanczos == LzInit /\ [][LzNext]_vars

(***************************************************************************)
(* The generators of tensor_gen.py that build a network of a given size.   *)
(* A site array is [which, shape]: the position it is made for and its     *)
(* shape.  The spin S is held as 2S.                                       *)
(***************************************************************************)
Array(which, shape) == [which |-> which, shape |-> shape]

\* the arrays gen_arrays of MPS_zero_state yields
zero_state_array(which, bond_dim, phys_dim) ==
  IF which = "M" THEN Array(which, <<bond_dim, bond_dim, phys_dim>>)
  ELSE Array(which, <<bond_dim, phys_dim>>)

\* the arrays gen_arrays of MPO_identity yields
identity_array(which, phys_dim) ==
  IF which = "M" THEN Array(which, <<1, 1, phys_dim, phys_dim>>)
  ELSE Array(which, <<1, phys_dim, phys_dim>>)

\* spin_ham_mpo_tensor: H is (B, B, D, D) and the ends are slices of it
spin_ham_mpo_tensor(n_two_site_terms, twoS, which) ==
  LET D == twoS + 1
      B == n_two_site_terms + 2
  IN IF which = "M" THEN Array(which, <<B, B, D, D>>) ELSE Array(which, <<B, D, D>>)

\* [x] * m of python: empty when m is not positive
Repeat(x, m) == [j \in 1..m |-> x]

\* what a generator call yields at a position
SiteArray(c, which) ==
  IF c.fn = "MPS_zero_state" THEN zero_state_array(which, c.bond_dim, c.phys_dim)
  ELSE IF c.fn = "MPO_identity" THEN identity_array(which, c.phys_dim)
  ELSE IF c.fn = "MPO_ham_mbl" THEN spin_ham_mpo_tensor(3, c.twoS, which)
  ELSE spin_ham_mpo_tensor(c.two_site_terms, c.twoS, which)

MaxN == 4

GenCall(fn, n, bond_dim, phys_dim, two_site_terms, twoS) ==
  [fn |-> fn, n |-> n, bond_dim |-> bond_dim, phys_dim |-> phys_dim,
   two_site_terms |-> two_site_terms, twoS |-> twoS]

GenCalls ==
  {GenCall("MPS_zero_state", n, b, p, 0, 1) : n \in 1..MaxN, b \in 1..2, p \in 2..3}
  \cup {GenCall("MPO_identity", n, 1, p, 0, 1) : n \in 1..MaxN, p \in 2..3}
  \cup {GenCall("MPOSpinHam.build", n, 1, 2, t, s) : n \in 1..MaxN, t \in 0..2, s \in 1..2}
  \cup {GenCall("MPO_ham_mbl", n, 1, 2, 3, s) : n \in 1..MaxN, s \in 1..2}

Lazy == {"MPS_zero_state", "MPO_identity", "MPO_ham_mbl"}

GenInit ==
  /\ pc = "start"
  /\ call \in GenCalls
  /\ ret = NoRet
  /\ einsum_calls = 0
  /\ cache_ptr_dot = <<>>
  /\ cache_ptr_ppt_dot = <<>>
  /\ prev = NoRet
  /\ OpIdle /\ LzIdle /\ requests = <<>> /\ arrays = <<>>

genframe == <<call, ret, einsum_calls, cache_ptr_dot, cache_ptr_ppt_dot, prev,
              opvars, lzvars, requests>>

\* gen_arrays: the first yield
YieldLeft ==
  /\ pc = "start"
  /\ call.fn \in Lazy
  /\ arrays' = <<SiteArray(call, "L")>>
  /\ pc' = "middle"
  /\ UNCHANGED genframe

\* gen_arrays: one pass of "for _ in range(n - 2)"
YieldMiddle ==
  /\ pc = "middle"
  /\ Len(arrays) - 1 < call.n - 2
  /\ arrays' = Append(arrays, SiteArray(call, "M"))
  /\ UNCHANGED <<pc, genframe>>

\* gen_arrays: the loop is over, the last yield
YieldRight ==
  /\ pc = "middle"
  /\ Len(arrays) - 1 >= call.n - 2
  /\ arrays' = Append(arrays, SiteArray(call, "R"))
  /\ pc' = "handed"
  /\ UNCHANGED genframe

\* MPOSpinHam.build: arrays = (left, *[middle] * (n - 2), right)
Build ==
  /\ pc = "start"
  /\ call.fn = "MPOSpinHam.build"
  /\ arrays' = <<SiteArray(call, "L")>> \o Repeat(SiteArray(call, "M"), call.n - 2)
                 \o <<SiteArray(call, "R")>>
  /\ pc' = "handed"
  /\ UNCHANGED genframe

GenNext == YieldLeft \/ YieldMiddle \/ YieldRight \/ Build

SpecGen == GenInit /\ [][GenNext]_vars

(***************************************************************************)
(* Reference constructions, written on matrices with flat indices.         *)
(***************************************************************************)
\* the sum f[0] + ... + f[n - 1]
RECURSIVE GSum(_, _)
GSum(f, n) == IF n = 0 THEN GZero ELSE GAdd(f[n - 1], GSum(f, n - 1))

\* the part of the flat index r of a dims-shaped array that lies in the
\* subsystems S, as a multi-index
Part(r, dims, S) ==
  LET idx == Unravel(r, dims)
  IN Keep(idx, [i \in 0..(Len(dims) - 1) |-> i \in S])

\* entry (r, c) of the outer product psi psi^dagger
Rho(psi, r, c) == GMul(psi[r + 1], GConj(psi[c + 1]))

\* the partial trace of psi psi^dagger over the subsystems outside S, as a
\* matrix M[ra][ca] on the subsystems S (0-based flat indices)
PartialTrace(psi, dims, S) ==
  LET N == Prod(dims)
      dims_s == KeptDims(dims, S)
      m == Prod(dims_s)
      rest == All(dims) \ S
  IN Bind(Seq1([k \in 1..N |-> Ravel(Part(k - 1, dims, S), dims_s)]), LAMBDA inS :
     Bind(Seq1([k \in 1..N |-> Seq1(Part(k - 1, dims, rest))]), LAMBDA inRest :
       [ra \in 0..(m - 1) |-> [ca \in 0..(m - 1) |->
          GSum([r \in 0..(N - 1) |->
                  IF inS[r + 1] # ra THEN GZero
                  ELSE GSum([c \in 0..(N - 1) |->
                               IF inS[c + 1] = ca /\ inRest[r + 1] = inRest[c + 1]
                               THEN Rho(psi, r, c) ELSE GZero], N)], N)]]))

\* the matrix M (m by m) applied to vec
MatVec(M, vec, m) ==
  [ra \in 1..m |-> GSum([ca \in 0..(m - 1) |-> GMul(M[ra - 1][ca], vec[ca + 1])], m)]

\* the reduced density matrix of psi on S applied to vec
RdmDot(psi, vec, dims, S) ==
  Bind(PartialTrace(psi, dims, S), LAMBDA M :
    MatVec(M, vec, Prod(KeptDims(dims, S))))

\* the dims a call works with, and the subsystems its subset argument names
EffDims(c) ==
  IF c.dims.t = "None"
  THEN <<Len(c.vec), Len(c.psi) \div Len(c.vec)>>
  ELSE c.dims.v
SysA(c) == Range(c.sysa.v)
SysB(c) == Range(c.sysb.v)

WellFormedPtrDot(c) ==
  /\ c.fn = "lazy_ptr_dot"
  /\ SysA(c) # {} /\ SysA(c) \subseteq All(EffDims(c))
  /\ Len(c.psi) = Prod(EffDims(c))
  /\ Len(c.vec) = Prod(KeptDims(EffDims(c), SysA(c)))

\* C1: lazy_ptr_dot returns the reduced density matrix of psi_ab on sysa
\* (the partial trace of psi_ab psi_ab^dagger over the other subsystems)
\* applied to psi_a, exactly.
C1_PtrDotIsRdmDot ==
  (pc = "done" /\ WellFormedPtrDot(call)) =>
     ret = Ok(RdmDot(call.psi, call.vec, EffDims(call), SysA(call)))

\* a result with an entry that is not real
Complex(r) == r.tag = "ok" /\ \E k \in 1..Len(r.val) : r.val[k][2] # 0

\* C1 happens: a call on three subsystems keeping two, with a complex result
C1_Witness ==
  /\ pc = "done" /\ WellFormedPtrDot(call)
  /\ Len(EffDims(call)) = 3 /\ Cardinality(SysA(call)) = 2
  /\ Complex(ret)

\* the matrix M on the subsystems AB (in ascending position, dims_ab),
\* transposed on those of them that are in A
PartialTranspose(M, dims_ab, ab, A) ==
  LET m == Prod(dims_ab)
      \* the index whose A parts are those of q and whose other parts those of p
      Mix(p, q) ==
        LET ip == Unravel(p, dims_ab)
            iq == Unravel(q, dims_ab)
        IN Ravel([k \in 1..Len(ab) |-> IF ab[k] \in A THEN iq[k] ELSE ip[k]], dims_ab)
  IN [p \in 0..(m - 1) |-> [q \in 0..(m - 1) |-> M[Mix(p, q)][Mix(q, p)]]]

\* partial trace over the subsystems in neither A nor B, partial transpose
\* on A, applied to vec
PptDot(psi, vec, dims, A, B) ==
  Bind(PartialTrace(psi, dims, A \cup B), LAMBDA M :
  Bind(PartialTranspose(M, KeptDims(dims, A \cup B), SortedSeq(A \cup B), A), LAMBDA T :
    MatVec(T, vec, Prod(KeptDims(dims, A \cup B)))))

WellFormedPtrPptDot(c) ==
  /\ c.fn = "lazy_ptr_ppt_dot"
  /\ SysA(c) \cap SysB(c) = {}
  /\ SysA(c) \cup SysB(c) \subseteq All(EffDims(c))
  /\ Len(c.psi) = Prod(EffDims(c))
  /\ Len(c.vec) = Prod(KeptDims(EffDims(c), SysA(c) \cup SysB(c)))

\* C2: lazy_ptr_ppt_dot returns the partial trace of psi_abc psi_abc^dagger
\* over the subsystems in neither subset, partially transposed on sysa,
\* applied to psi_ab, the result's axes in ascending subsystem position.
C2_PtrPptDotIsPptDot ==
  (pc = "done" /\ WellFormedPtrPptDot(call)) =>
     ret = Ok(PptDot(call.psi, call.vec, EffDims(call), SysA(call), SysB(call)))

\* C2 happens: sysa after sysb with a traced subsystem between them
C2_Witness ==
  /\ pc = "done" /\ WellFormedPtrPptDot(call)
  /\ EffDims(call) = <<2, 2, 2>> /\ SysA(call) = {2} /\ SysB(call) = {0}
  /\ Complex(ret)

\* the kept subsystems of a call differ in size from its kets
Mismatch(c) ==
  \/ Len(c.psi) # Prod(EffDims(c))
  \/ Len(c.vec) # Prod(KeptDims(EffDims(c), SysA(c) \cup SysB(c)))

\* C7: when prod(dims) differs from the length of the base ket, or the
\* product of the kept dims from the length of the vector acted on (dims
\* given or inferred), the call raises numpy's shape error (ValueError) and
\* the contraction primitive has not been invoked.
C7_ShapeErrorBeforeContraction ==
  (pc = "done" /\ Mismatch(call)) => (ret = Raise("ValueError") /\ einsum_calls = 0)

\* C7 happens: an inferred bipartition whose lengths do not divide
C7_Witness ==
  /\ pc = "done" /\ call.dims.t = "None"
  /\ Len(call.psi) % Len(call.vec) # 0
  /\ ret = Raise("ValueError")

\* a direct planner call whose subsets are in range and, for the second
\* planner, disjoint
ValidPlanCall(c) ==
  /\ SysA(c) \cup SysB(c) \subseteq 0..(c.ndim - 1)
  /\ SysA(c) \cap SysB(c) = {}

\* how often label l occurs in the label sequences seqs
Times(l, seqs) == Cardinality(Occurrences(l, seqs))

PlanInputs(c, plan) ==
  IF c.fn = "get_cntrct_inds_ptr_dot"
  THEN <<plan.inds_a_ket, plan.inds_ab_bra, plan.inds_ab_ket>>
  ELSE <<plan.inds_ab_ket, plan.inds_abc_bra, plan.inds_abc_ket>>

\* C4: in a plan for in-range (and disjoint) subsets every label occurs
\* twice or once across the three input sequences; in the transpose plan
\* inds_out holds exactly the labels that occur once, each once.
C4_LabelsSummedOrFree ==
  (pc = "returned" /\ ret.tag = "ok" /\ ValidPlanCall(call)) =>
     LET ins == PlanInputs(call, ret.val)
     IN /\ \A l \in Labels(ins) : Times(l, ins) \in {1, 2}
        /\ call.fn = "get_cntrct_inds_ptr_ppt_dot" =>
             /\ Range(ret.val.inds_out) = {l \in Labels(ins) : Times(l, ins) = 1}
             /\ \A l \in Range(ret.val.inds_out) : Times(l, <<ret.val.inds_out>>) = 1

\* C4 happens: a transpose plan with a kept A, a kept B and a traced index
C4_Witness ==
  /\ pc = "returned" /\ ret.tag = "ok" /\ ValidPlanCall(call)
  /\ call.fn = "get_cntrct_inds_ptr_ppt_dot"
  /\ SysA(call) # {} /\ SysB(call) # {}
  /\ SysA(call) \cup SysB(call) # 0..(call.ndim - 1)

\* C6: a planner call with an index out of range, or with an index in both
\* subsets, ends in an error and returns no plan.
C6_InvalidSubsetRaises ==
  (pc = "returned" /\ ~ValidPlanCall(call)) => ret.tag = "raise"

\* C8: two planner calls with the same subsystem count and two
\* representations of the same subset return identical label sequences.
C8_SameSubsetSamePlan ==
  (pc = "returned" /\ prev.tag = "call") =>
     (ret.tag = "ok" /\ prev.ret.tag = "ok" /\ ret.val = prev.ret.val)

\* the inner product <a, b> = sum of conj(a[j]) * b[j]
RECURSIVE Inner(_, _)
Inner(a, b) ==
  IF Len(a) = 0 THEN GZero
  ELSE GAdd(GMul(GConj(a[Len(a)]), b[Len(a)]), Inner(Front(a), Front(b)))

\* C3: for a handle Op of either kind and vectors u, v of its dimension,
\* <u, Op.apply(v)> equals <Op.adjoint().apply(u), v>, Op.adjoint() being the
\* handle the adjoint call returned.
C3_AdjointProperty ==
  \A i \in 1..Len(handles), a \in 1..Len(applied), b \in 1..Len(applied) :
     (/\ applied[a].h = 1 /\ applied[a].vec = call.v
      /\ i > 1 /\ applied[b].h = i /\ applied[b].vec = call.u
      /\ applied[a].ret.tag = "ok" /\ applied[b].ret.tag = "ok")
     => Inner(call.u, applied[a].ret.val) = Inner(applied[b].ret.val, call.v)

\* the step of the present run at which the recurrence first broke down
\* before the last one: beta[j + 1] = 0 with j < M
Breakdowns == {j \in 1..(call.M - 1) : beta[j + 1] = Num(0, 0)}

\* C5: when construct_lanczos_tridiag with M > 1 meets beta[k + 1] = 0 at a
\* step k < M, it signals a breakdown and hands back no alpha, beta.
C5_BreakdownSignalled ==
  (tridiag # NoRet /\ call.M > 1 /\ Breakdowns # {}) => tridiag.tag = "raise"

\* C9: approx_spectral_function(A, fn, M = d, R = 1, v0) with fn = 1, A the
\* d-dimensional identity, d > 1, and v0 fixed returns d.
C9_CountsIdentity ==
  (/\ pc \in {"returned", "raised"}
   /\ call.A = Identity(Len(call.A)) /\ Len(call.A) > 1
   /\ call.f = "one" /\ call.M = Len(call.A) /\ call.R = 1 /\ call.v0 # NoV0)
  => ret = Ok([num |-> Len(call.A), den |-> 1])

\* C10: every call approx_spectral_function(A, fn, M, R, v0) ends after
\* exactly R restarts, M * R applications of A and M * R terms, returning
\* the sum times A.shape[0] / R.
C10_ExactWork ==
  pc \in {"returned", "raised"} =>
    /\ pc = "returned"
    /\ restart = call.R
    /\ matvecs = call.M * call.R
    /\ terms = call.M * call.R
    /\ ret = Ok([num |-> total * Len(call.A), den |-> call.R])

\* C11: after any sequence of _matvec and _adjoint calls the first handle
\* holds the ket, dims, subsets, shape and dtype it was built with, every
\* later handle is still the adjoint of an earlier one as it was built, and
\* two _matvec calls of one handle on one vector gave the same result.
C11_HandlesImmutable ==
  /\ Len(handles) >= 1 =>
       handles[1] = Construct(call.fn, call.psi, call.dims, call.sysa, call.sysb)
  /\ \A i \in 2..Len(handles) : \E j \in 1..(i - 1) : handles[i] = _adjoint(handles[j])
  /\ \A a \in 1..Len(applied), b \in 1..Len(applied) :
       (applied[a].h = applied[b].h /\ applied[a].vec = applied[b].vec)
         => applied[a].ret = applied[b].ret

\* C11 happens: an adjoint was taken and a handle was applied twice to one
\* vector
C11_Witness ==
  /\ Len(handles) = 2 /\ handles[2].psi # handles[1].psi
  /\ Len(applied) = 2
  /\ applied[1].h = applied[2].h /\ applied[1].vec = applied[2].vec
  /\ applied[2].ret.tag = "ok"

\* the kept subsystems of a planner call, ascending, and the place of
\* subsystem i among them
KeptSeq(c) == SortedSeq((SysA(c) \cup SysB(c)) \cap (0..(c.ndim - 1)))
Place(c, i) == Cardinality({j \in Range(KeptSeq(c)) : j <= i})

\* C12: for every ndim_abc, sysa, sysb the sequences inds_out and
\* inds_ab_ket of get_cntrct_inds_ptr_ppt_dot have |sysa| + |sysb| entries,
\* the k-th belonging to the k-th kept subsystem in ascending order.
C12_OutLength ==
  (pc = "returned" /\ call.fn = "get_cntrct_inds_ptr_ppt_dot" /\ ret.tag = "ok") =>
     LET n == Len(call.sysa.v) + Len(call.sysb.v)
         plan == ret.val
     IN /\ Len(plan.inds_out) = n
        /\ Len(plan.inds_ab_ket) = n
        /\ \A p \in 1..Len(plan.inds_out) :
             LET i == KeptSeq(call)[p]
             IN /\ plan.inds_out[p] \in {i, plan.inds_abc_bra[i + 1]}
                /\ plan.inds_ab_ket[p] \in {i, plan.inds_abc_bra[i + 1]}

\* C12 for subsets that are in range and disjoint
C12_OutLengthValid == ValidPlanCall(call) => C12_OutLength

\* a label the planner drew from upper_inds
Fresh(c, l) == l >= c.ndim

\* C13 as stated: for i in sysa a fresh label is bound to inds_ab_ket and to
\* inds_abc_bra, i to inds_abc_ket, and the fresh label is recorded in
\* inds_out; for i in sysb the fresh label goes to inds_ab_ket and
\* inds_abc_bra and i is recorded in inds_out.
C13_FreshToAbKet ==
  (pc = "returned" /\ call.fn = "get_cntrct_inds_ptr_ppt_dot" /\ ret.tag = "ok"
     /\ ValidPlanCall(call)) =>
     LET plan == ret.val
     IN \A i \in SysA(call) \cup SysB(call) :
          LET p == Place(call, i)
              f == plan.inds_abc_bra[i + 1]
          IN /\ Fresh(call, f)
             /\ plan.inds_abc_ket[i + 1] = i
             /\ plan.inds_ab_ket[p] = f
             /\ plan.inds_out[p] = (IF i \in SysA(call) THEN f ELSE i)

\* C13, amended: for i in sysa the fresh label is bound to inds_abc_bra and
\* recorded in inds_out, while inds_ab_ket and inds_abc_ket hold i; for i in
\* sysb the fresh label is bound to inds_ab_ket and inds_abc_bra, while
\* inds_abc_ket holds i and i is recorded in inds_out.  Fresh labels are
\* ndim_abc, ndim_abc + 1, ... in ascending order of i.
C13_FreshToBraAndOut ==
  (pc = "returned" /\ call.fn = "get_cntrct_inds_ptr_ppt_dot" /\ ret.tag = "ok"
     /\ ValidPlanCall(call)) =>
     LET plan == ret.val
     IN \A i \in SysA(call) \cup SysB(call) :
          LET p == Place(call, i)
              f == plan.inds_abc_bra[i + 1]
          IN /\ f = call.ndim + p - 1
             /\ plan.inds_abc_ket[i + 1] = i
             /\ plan.inds_ab_ket[p] = (IF i \in SysA(call) THEN i ELSE f)
             /\ plan.inds_out[p] = (IF i \in SysA(call) THEN f ELSE i)

\* C13 happens: a plan with an index in sysa and one in sysb
C13_Witness ==
  /\ pc = "returned" /\ call.fn = "get_cntrct_inds_ptr_ppt_dot" /\ ret.tag = "ok"
  /\ ValidPlanCall(call)
  /\ SysA(call) # {} /\ SysB(call) # {}
  /\ \E i \in SysA(call) : ret.val.inds_ab_ket[Place(call, i)] = i

\* C14: over any sequence of lazy calls the planner body runs at most once
\* per (subsystem count, subset[, second subset]): a later request for the
\* same count and the same subsets, in whatever order their elements are
\* given, is served from the cache, with the plan of the first request.
C14_PlannedOnce ==
  \A a \in 1..Len(requests), b \in 1..Len(requests) :
     (/\ a < b
      /\ requests[a].fn = requests[b].fn /\ requests[a].ndim = requests[b].ndim
      /\ requests[a].sysa = requests[b].sysa /\ requests[a].sysb = requests[b].sysb)
     => (~requests[b].ran /\ requests[b].plan = requests[a].plan)

\* how many of the arrays handed over were made for the position w
Made(w) == Cardinality({j \in 1..Len(arrays) : arrays[j].which = w})

\* C15: for every n >= 1 each fixed-size generator hands the network
\* constructor exactly n site arrays: one left-boundary array, n - 2 middle
\* arrays and one right-boundary array.
C15_HandsNArrays ==
  pc = "handed" =>
    /\ Len(arrays) = call.n
    /\ Made("L") = 1 /\ Made("M") = call.n - 2 /\ Made("R") = 1

====
